---- MODULE Spec2Model ----
(***************************************************************************)
(* tiny-shorturl: the short-code allocator, the two storage adapters, the  *)
(* creation handler (POST /api/shorten), the redirect page (GET /<code>)   *)
(* and the rate-limiting middleware, as one state machine.                 *)
(*                                                                         *)
(* Strings the code inspects character by character (codes, schemes, host  *)
(* labels) are sequences of one-character strings.  Every await on a       *)
(* backend (one KV call, one file read, one file write) is one atomic      *)
(* step; the synchronous code around it belongs to the same step.          *)
(***************************************************************************)
EXTENDS Integers, Sequences, FiniteSets, TLC

VARIABLES
  env,       \* process.env: the settings the deployment gives (strings, or Absent)
  variant,   \* the adapter createStorageAdapter chose: "kv" or "local"
  kv,        \* the key-value store: key -> value, a key is absent when not in DOMAIN
  file,      \* data/urls.json: [exists, data], data the parsed code -> record object
  now,       \* Date.now(), in ticks of TickMs milliseconds
  req,       \* per creation request: position in POST and its local variables
  rd,        \* per redirect request: position in RedirectPage and its local variables
  lastSave,  \* history: code -> url of the latest save(code, _) that completed
  cache,     \* the limiter's in-memory block list: client key -> reset time (ms)
  hist       \* history of the middleware: requests seen, limiter failures, and per
             \* client key the requests passed on in the current window

vars == <<env, variant, kv, file, now, req, rd, lastSave, cache, hist>>

-----------------------------------------------------------------------------
(* Bounds of the model *)

\* creation requests (each runs POST once)
NumCreators == 2
\* redirect requests (each runs RedirectPage once)
NumRedirects == 1
\* longest string given to isValidCodeFormat in SpecFormat
MaxStrLen == 7

Creators == 1..NumCreators
Redirects == 1..NumRedirects

-----------------------------------------------------------------------------
(* Short codes: src/unnamed/part_003 (lib/nanoid.ts) *)

ALPHABET ==
  << "0", "1", "2", "3", "4", "5", "6", "7", "8", "9", "A", "B", "C", "D", "E", "F",
     "G", "H", "I", "J", "K", "L", "M", "N", "O", "P", "Q", "R", "S", "T", "U", "V",
     "W", "X", "Y", "Z", "a", "b", "c", "d", "e", "f", "g", "h", "i", "j", "k", "l",
     "m", "n", "o", "p", "q", "r", "s", "t", "u", "v", "w", "x", "y", "z" >>

CODE_LENGTH == 6

MAX_RETRIES == 5

\* The alphabet of the nanoid package's default generator, which is what the
\* import `nanoid` is: A-Z a-z 0-9 and the two symbols "_" and "-".
urlAlphabet ==
  << "u", "s", "e", "a", "n", "d", "o", "m", "-", "2", "6", "T", "1", "9", "8", "3",
     "4", "0", "P", "X", "7", "5", "p", "x", "J", "A", "C", "K", "V", "E", "R", "Y",
     "M", "I", "N", "D", "B", "U", "S", "H", "W", "O", "L", "F", "_", "G", "Q", "Z",
     "b", "f", "g", "h", "j", "k", "l", "q", "v", "w", "y", "z", "r", "i", "c", "t" >>

\* nanoid(size) on the random bytes it drew: one symbol per byte, byte & 63.
nanoid(size, bytes) ==
  [k \in 1..size |-> urlAlphabet[(bytes[k] % 64) + 1]]

\* The random bytes the model lets the generator draw: the last byte varies
\* over three samples (-> "a", "-", "_"), the others are 0 (-> "u").
SampleBytes == {3, 72, 108}

RandomFills ==
  { [k \in 1..CODE_LENGTH |-> IF k = CODE_LENGTH THEN b ELSE 0] : b \in SampleBytes }

\* generateCode(length = CODE_LENGTH)
generateCode(bytes) == nanoid(CODE_LENGTH, bytes)

\* String.prototype.includes for a one-character needle
Includes(str, ch) == \E i \in 1..Len(str) : str[i] = ch

isValidCodeFormat_UrlAlphabet(code) ==
  IF Len(code) # CODE_LENGTH
    THEN FALSE
    ELSE \A i \in 1..Len(code) : Includes(urlAlphabet, code[i])

isValidCodeFormat(code) ==
  IF Len(code) # CODE_LENGTH
    THEN FALSE
    ELSE \A i \in 1..Len(code) : Includes(ALPHABET, code[i])

\* generateUniqueCode: the loop condition, and the test that returns the candidate
LoopContinues_Twice(attempts) == attempts < 2 * MAX_RETRIES

LoopContinues_OneMore(attempts) == attempts <= MAX_RETRIES

LoopContinues(attempts) == attempts < MAX_RETRIES

ReturnsCandidate_Unchecked(exists) == TRUE

ReturnsCandidate(exists) == ~exists

-----------------------------------------------------------------------------
(* URL validation: src/lib/validator.ts *)
(* A URL text is [ws, scheme, host, path, fill]: ws whitespace characters   *)
(* around it, the scheme before "://" (empty: no "://"), the host as its    *)
(* dot-separated labels, the path, and fill further query characters.       *)

MIN_LENGTH == 10

MAX_LENGTH == 2048

ALLOWED_PROTOCOLS == { <<"h","t","t","p">>, <<"h","t","t","p","s">> }

BLOCKED_DOMAINS ==
  { << <<"l","o","c","a","l","h","o","s","t">> >>,
    << <<"1","2","7">>, <<"0">>, <<"0">>, <<"1">> >>,
    << <<"0">>, <<"0">>, <<"0">>, <<"0">> >> }

Upper == {ALPHABET[i] : i \in 11..36}

Lower == {ALPHABET[i] : i \in 37..62}

Digit == {ALPHABET[i] : i \in 1..10}

\* String.prototype.toLowerCase on one character and on a string
LowerChar(ch) ==
  IF ch \in Upper
    THEN ALPHABET[(CHOOSE i \in 11..36 : ALPHABET[i] = ch) + 26]
    ELSE ch

toLowerCase(str) == [i \in 1..Len(str) |-> LowerChar(str[i])]

LowerHost(host) == [i \in 1..Len(host) |-> toLowerCase(host[i])]

RECURSIVE SumLen(_)
SumLen(labels) ==
  IF labels = <<>> THEN 0 ELSE Len(Head(labels)) + SumLen(Tail(labels))

\* the number of characters of the host: its labels and the dots between them
HostLen(host) == IF host = <<>> THEN 0 ELSE SumLen(host) + Len(host) - 1

\* string.length of the text of a URL
StrLen(u) ==
  u.ws + (IF u.scheme = <<>> THEN 0 ELSE Len(u.scheme) + 3)
       + HostLen(u.host) + Len(u.path) + u.fill

\* String.prototype.trim
trim(u) == [u EXCEPT !.ws = 0]

\* validator.isIP (version 4): four numeric labels
isIP(host) ==
  /\ Len(host) = 4
  /\ \A i \in 1..4 : /\ Len(host[i]) \in 1..3
                     /\ \A j \in 1..Len(host[i]) : host[i][j] \in Digit

\* validator.isFQDN with require_tld, no underscores, no trailing dot
isFQDN(host) ==
  /\ Len(host) >= 2
  /\ Len(host[Len(host)]) >= 2
  /\ \A j \in 1..Len(host[Len(host)]) : host[Len(host)][j] \in Upper \cup Lower
  /\ \A i \in 1..Len(host) :
       /\ Len(host[i]) \in 1..63
       /\ \A j \in 1..Len(host[i]) : host[i][j] \in Upper \cup Lower \cup Digit \cup {"-"}
       /\ host[i][1] # "-"
       /\ host[i][Len(host[i])] # "-"

\* validator.isURL(trimmedUrl, {protocols, require_protocol, require_host, ...})
isURL_AnyProtocol(u) ==
  /\ u.ws = 0
  /\ StrLen(u) < 2083
  /\ u.scheme # <<>>
  /\ u.host # <<>>
  /\ (isIP(u.host) \/ isFQDN(u.host))

isURL(u) ==
  /\ u.ws = 0
  /\ StrLen(u) < 2083
  /\ u.scheme # <<>>
  /\ toLowerCase(u.scheme) \in ALLOWED_PROTOCOLS
  /\ u.host # <<>>
  /\ (isIP(u.host) \/ isFQDN(u.host))

\* hostname === domain || hostname.endsWith(`.${domain}`)
EndsWithDomain(hostname, domain) ==
  /\ Len(hostname) >= Len(domain)
  /\ SubSeq(hostname, Len(hostname) - Len(domain) + 1, Len(hostname)) = domain

\* new URL(trimmedUrl).toString(): scheme and host in lower case, "/" for an empty path
Serialize(u) ==
  [ws |-> 0, scheme |-> toLowerCase(u.scheme), host |-> LowerHost(u.host),
   path |-> IF u.path = "" THEN "/" ELSE u.path, fill |-> u.fill]

Invalid_Accepts(error) == [isValid |-> TRUE, error |-> error, normalizedUrl |-> <<>>]

Invalid(error) == [isValid |-> FALSE, error |-> error, normalizedUrl |-> <<>>]

\* isValidUrlFormat, the quick check of the form: the length bounds and
\* /^https?:\/\/.+/i on the trimmed text
isValidUrlFormat(url) ==
  LET trimmed == trim(url) IN
  /\ StrLen(trimmed) >= MIN_LENGTH
  /\ StrLen(trimmed) <= MAX_LENGTH
  /\ toLowerCase(trimmed.scheme) \in ALLOWED_PROTOCOLS
  /\ HostLen(trimmed.host) + Len(trimmed.path) + trimmed.fill >= 1

validateUrl_Loose(url) ==
  IF isValidUrlFormat(url)
    THEN [isValid |-> TRUE, error |-> "", normalizedUrl |-> Serialize(trim(url))]
    ELSE Invalid("INVALID_FORMAT")

validateUrl_FormatFirst(url) ==
  LET trimmedUrl == trim(url) IN
  IF StrLen(trimmedUrl) = 0 THEN Invalid("EMPTY_URL")
  ELSE IF ~isURL(trimmedUrl) THEN Invalid("INVALID_FORMAT")
  ELSE IF StrLen(trimmedUrl) < MIN_LENGTH THEN Invalid("TOO_SHORT")
  ELSE IF StrLen(trimmedUrl) > MAX_LENGTH THEN Invalid("TOO_LONG")
  ELSE IF \E domain \in BLOCKED_DOMAINS :
            EndsWithDomain(LowerHost(trimmedUrl.host), domain)
    THEN Invalid("BLOCKED_DOMAIN")
  ELSE [isValid |-> TRUE, error |-> "", normalizedUrl |-> Serialize(trimmedUrl)]

validateUrl(url) ==
  LET trimmedUrl == trim(url) IN
  IF StrLen(trimmedUrl) = 0 THEN Invalid("EMPTY_URL")
  ELSE IF StrLen(trimmedUrl) < MIN_LENGTH THEN Invalid("TOO_SHORT")
  ELSE IF StrLen(trimmedUrl) > MAX_LENGTH THEN Invalid("TOO_LONG")
  ELSE IF ~isURL(trimmedUrl) THEN Invalid("INVALID_FORMAT")
  ELSE IF toLowerCase(trimmedUrl.scheme) \notin ALLOWED_PROTOCOLS
    THEN Invalid("INVALID_PROTOCOL")
  ELSE IF \E domain \in BLOCKED_DOMAINS :
            EndsWithDomain(LowerHost(trimmedUrl.host), domain)
    THEN Invalid("BLOCKED_DOMAIN")
  ELSE [isValid |-> TRUE, error |-> "", normalizedUrl |-> Serialize(trimmedUrl)]

\* errorCodeMap of POST
errorCodeMap(error) ==
  CASE error = "EMPTY_URL" -> "EMPTY_URL"
    [] error = "TOO_SHORT" -> "URL_TOO_SHORT"
    [] error = "TOO_LONG" -> "URL_TOO_LONG"
    [] error = "INVALID_FORMAT" -> "INVALID_URL_FORMAT"
    [] error = "INVALID_PROTOCOL" -> "INVALID_PROTOCOL"
    [] error = "BLOCKED_DOMAIN" -> "BLOCKED_DOMAIN"

-----------------------------------------------------------------------------
(* Storage: src/unnamed/part_003 (lib/store.ts) *)

null == [isNull |-> TRUE]

EmptyMap == [c \in {} |-> null]

\* obj[key] = value on a JSON object, or SET key value on the store
Put(map, key, value) ==
  [k \in DOMAIN map \cup {key} |-> IF k = key THEN value ELSE map[k]]

\* VercelKVAdapter.getKey
getKey(code) == <<"shorturl:", code>>

\* VercelKVAdapter.exists / get / save, on a call that does not throw
KvExists(code) == getKey(code) \in DOMAIN kv

KvGet(code) == IF getKey(code) \in DOMAIN kv THEN kv[getKey(code)] ELSE null

KvSave(code, data) == Put(kv, getKey(code), data)

\* LocalJSONAdapter.readData: the parsed file, {} when there is no file
readData == IF file.exists THEN file.data ELSE EmptyMap

\* LocalJSONAdapter.writeData: the whole file is replaced
writeData(data) == [exists |-> TRUE, data |-> data]

\* LocalJSONAdapter.exists / get
LocalExists(code) == code \in DOMAIN readData

LocalGet(code) == IF code \in DOMAIN readData THEN readData[code] ELSE null

\* storage.exists(code) and storage.get(code) of the adapter in use
urlExists(code) == IF variant = "kv" THEN KvExists(code) ELSE LocalExists(code)

storageGet(code) == IF variant = "kv" THEN KvGet(code) ELSE LocalGet(code)

\* getUrl: data?.url || null
getUrl(data) == IF data = null THEN null ELSE data.url

\* saveUrl: the record it builds
UrlData(url) == [url |-> url, createdAt |-> now]

\* whether a backend call can throw: every KV call can; of the local adapter
\* only writeData can, readData catches every error
CanThrow(op) == variant = "kv" \/ op = "write"

-----------------------------------------------------------------------------
(* The creation handler: src/app/api/shorten/route.ts, POST *)

BaseUrl == "https://short.example"

Failure(status, code) ==
  [success |-> FALSE, status |-> status, code |-> code, data |-> null]

Success(shortCode) ==
  [success |-> TRUE, status |-> 200, code |-> "",
   data |-> [shortUrl |-> <<BaseUrl, "/", shortCode>>, code |-> shortCode]]

\* what POST answers when generateUniqueCode throws, and when saveUrl throws
GenerationCatch == Failure(500, "CODE_GENERATION_FAILED")

SaveCatch == Failure(500, "STORAGE_ERROR")

\* a request that arrived and that nothing has handled yet; mw is what the
\* middleware did with it (from: the address headers the request carried),
\* nHandler how often a route handler was run on it
NewRequest ==
  [pc |-> "new", method |-> "POST", ip |-> "", mw |-> null, nHandler |-> 0,
   body |-> null, nurl |-> null, attempts |-> 0, code |-> <<>>,
   allData |-> EmptyMap, resp |-> null,
   nExists |-> 0, nSave |-> 0, threw |-> "", checked |-> null,
   validation |-> null]

\* a POST request the middleware passed on to the route handler
RoutedRequest ==
  [NewRequest EXCEPT !.pc = "routed", !.ip = "127.0.0.1",
                     !.mw = [passed |-> TRUE, threw |-> FALSE,
                             before |-> [passed |-> 0, granted |-> 0, rejectedAt |-> -1],
                             at |-> 0, headers |-> null,
                             from |-> [xff |-> "(null)", xri |-> "(null)"]]]

Respond(p, response) ==
  req' = [req EXCEPT ![p].pc = "done", ![p].resp = response, ![p].allData = EmptyMap]

\* POST up to the first backend call: parse the body, check url, validateUrl
PostBegin(p, b) ==
  /\ req[p].pc = "routed"
  /\ req[p].method = "POST"
  /\ LET r == [req[p] EXCEPT !.body = b, !.nHandler = @ + 1, !.pc = "done"] IN
     IF b.kind = "badjson"
       THEN req' = [req EXCEPT ![p] = [r EXCEPT !.resp = Failure(400, "INVALID_JSON")]]
     ELSE IF b.kind = "null"
       THEN req' = [req EXCEPT ![p] = [r EXCEPT !.resp = Failure(500, "INTERNAL_ERROR")]]
     ELSE IF b.kind = "nourl"
       THEN req' = [req EXCEPT ![p] = [r EXCEPT !.resp = Failure(400, "MISSING_URL")]]
     ELSE LET validation == validateUrl(b.url) IN
          IF ~validation.isValid
            THEN req' = [req EXCEPT ![p] =
                           [r EXCEPT !.validation = validation,
                                     !.resp = Failure(400, errorCodeMap(validation.error))]]
            ELSE req' = [req EXCEPT ![p] =
                           [r EXCEPT !.validation = validation,
                                     !.pc = "generate", !.attempts = 0,
                                     !.nurl = validation.normalizedUrl]]
  /\ UNCHANGED <<env, variant, kv, file, now, rd, lastSave, cache, hist>>

\* GET, PUT and DELETE of the route
MethodNotAllowed(p) ==
  /\ req[p].pc = "routed"
  /\ req[p].method \in {"GET", "PUT", "DELETE"}
  /\ req' = [req EXCEPT ![p].pc = "done", ![p].nHandler = @ + 1,
                        ![p].resp = Failure(405, "METHOD_NOT_ALLOWED")]
  /\ UNCHANGED <<env, variant, kv, file, now, rd, lastSave, cache, hist>>

\* One turn of the loop of generateUniqueCode: draw a candidate, await urlExists
GenerateStep(p, bytes, throws) ==
  /\ req[p].pc = "generate"
  /\ throws => CanThrow("exists")
  /\ LET code == nanoid(CODE_LENGTH, bytes)
         exists == urlExists(code)
         r == [req[p] EXCEPT !.nExists = @ + 1] IN
     IF throws
       THEN req' = [req EXCEPT ![p] = [r EXCEPT !.pc = "done", !.threw = "exists",
                                                !.resp = GenerationCatch]]
     ELSE IF ReturnsCandidate(exists)
       THEN req' = [req EXCEPT ![p] = [r EXCEPT !.pc = "save", !.code = code,
                                 !.checked = [code |-> code, exists |-> exists]]]
     ELSE IF LoopContinues(r.attempts + 1)
       THEN req' = [req EXCEPT ![p] = [r EXCEPT !.attempts = @ + 1,
                                 !.checked = [code |-> code, exists |-> exists]]]
     ELSE req' = [req EXCEPT ![p] = [r EXCEPT !.pc = "done", !.attempts = @ + 1,
                                 !.checked = [code |-> code, exists |-> exists],
                                 !.resp = GenerationCatch]]
  /\ UNCHANGED <<env, variant, kv, file, now, rd, lastSave, cache, hist>>

\* saveUrl under the KV adapter: one SET, then the success response
SaveKV(p, throws) ==
  /\ req[p].pc = "save"
  /\ variant = "kv"
  /\ LET r == [req[p] EXCEPT !.nSave = @ + 1, !.pc = "done"] IN
     IF throws
       THEN /\ req' = [req EXCEPT ![p] = [r EXCEPT !.threw = "save", !.resp = SaveCatch]]
            /\ UNCHANGED <<kv, lastSave>>
       ELSE /\ kv' = KvSave(r.code, UrlData(r.nurl))
            /\ lastSave' = Put(lastSave, r.code, r.nurl)
            /\ req' = [req EXCEPT ![p] = [r EXCEPT !.resp = Success(r.code)]]
  /\ UNCHANGED <<env, variant, file, now, rd, cache, hist>>

\* saveUrl under the local adapter, first await: readData, then allData[code] = data
SaveLocalRead(p) ==
  /\ req[p].pc = "save"
  /\ variant = "local"
  /\ req' = [req EXCEPT ![p].pc = "write", ![p].nSave = @ + 1,
                        ![p].allData = Put(readData, req[p].code, UrlData(req[p].nurl))]
  /\ UNCHANGED <<env, variant, kv, file, now, rd, lastSave, cache, hist>>

\* saveUrl under the local adapter, second await: writeData(allData)
SaveLocalWrite(p, throws) ==
  /\ req[p].pc = "write"
  /\ IF throws
       THEN /\ req' = [req EXCEPT ![p].pc = "done", ![p].threw = "save",
                                  ![p].resp = SaveCatch, ![p].allData = EmptyMap]
            /\ UNCHANGED <<file, lastSave>>
       ELSE /\ file' = writeData(req[p].allData)
            /\ lastSave' = Put(lastSave, req[p].code, req[p].nurl)
            /\ Respond(p, Success(req[p].code))
  /\ UNCHANGED <<env, variant, kv, now, rd, cache, hist>>

-----------------------------------------------------------------------------
(* The redirect page: src/unnamed/part_001 (app/[code]/page.tsx) *)

NotFound == [kind |-> "notFound", status |-> 404, location |-> null]

\* redirect(url) of next/navigation in a page: a temporary redirect
Redirect(url) == [kind |-> "redirect", status |-> 307, location |-> url]

\* found: what storage.get answered; nGet: the storage calls made
IdleRedirect ==
  [pc |-> "idle", code |-> <<>>, valid |-> FALSE, out |-> null, nGet |-> 0,
   threw |-> FALSE, after |-> {}, found |-> null]

\* if (!isValidCodeFormat(code)) notFound()
RejectsCode_Never(code) == FALSE

RejectsCode(code) == ~isValidCodeFormat(code)

\* the catch of RedirectPage for an error that is not a redirect
PageCatch_Surfaces == [kind |-> "error", status |-> 500, location |-> null]

PageCatch == NotFound

\* the creation requests that answered success with this code
IssuedBy(code) ==
  {p \in Creators : /\ req[p].pc = "done"
                    /\ req[p].resp.success
                    /\ req[p].resp.data.code = code}

\* RedirectPage, the await of getUrl and what follows it
RedirectGet(r, throws) ==
  /\ rd[r].pc = "get"
  /\ throws => CanThrow("get")
  /\ LET data == storageGet(rd[r].code)
         originalUrl == getUrl(data)
         s == [rd[r] EXCEPT !.pc = "done", !.nGet = @ + 1] IN
     IF throws
       THEN rd' = [rd EXCEPT ![r] = [s EXCEPT !.threw = TRUE, !.out = PageCatch]]
     ELSE IF originalUrl = null
       THEN rd' = [rd EXCEPT ![r] = [s EXCEPT !.found = data, !.out = NotFound]]
     ELSE rd' = [rd EXCEPT ![r] = [s EXCEPT !.found = data,
                                            !.out = Redirect(originalUrl)]]
  /\ UNCHANGED <<env, variant, kv, file, now, req, lastSave, cache, hist>>

-----------------------------------------------------------------------------
(* The middleware: src/unnamed/part_000 (middleware.ts) *)
(* Ratelimit.slidingWindow(20, '1 m') of @upstash/ratelimit on the KV store:  *)
(* per client key one counter for each clock-aligned window; a request is    *)
(* refused when the counter of the current window plus the share of the      *)
(* previous window's counter that the sliding window still covers reaches    *)
(* the cap, and a refused key stays refused, from memory, until the window   *)
(* ends.  Date.now() and the script run in one step.                         *)

RATE_LIMIT == 20

WINDOW_MS == 60000

\* the clock ticks TicksPerWindow times per window, up to MaxNow
TicksPerWindow == 2

MaxNow == 3

\* requests the middleware sees, and calls of the limiter that throw
MaxRequests == 4

MaxLimiterFaults == 1

TickMs == WINDOW_MS \div TicksPerWindow

RatelimitPrefix == "@upstash/ratelimit"

ClientKeys == {"203.0.113.7", "127.0.0.1"}

\* rejectedAt: per client key the tick of its latest request when the limiter
\* refused that one, -1 otherwise
NoHistory ==
  [sent |-> 0, faults |-> 0,
   passed |-> [ip \in ClientKeys |-> 0], granted |-> [ip \in ClientKeys |-> 0],
   rejectedAt |-> [ip \in ClientKeys |-> -1]]

\* what headers.get answers for a header the request does not carry
Absent == "(null)"

\* request.headers.get('x-forwarded-for') ?? get('x-real-ip') ?? '127.0.0.1'
ClientIp(headers) ==
  IF headers.xff # Absent THEN headers.xff
  ELSE IF headers.xri # Absent THEN headers.xri
  ELSE "127.0.0.1"

nowMs == now * TickMs

CounterKey_Shared(ip, window) == <<RatelimitPrefix, "*", window>>

CounterKey(ip, window) == <<RatelimitPrefix, ip, window>>

Counter(key) == IF key \in DOMAIN kv THEN kv[key].n ELSE 0

\* the refusal test of the sliding-window script
OverLimit(used) == used >= RATE_LIMIT

\* the share of the previous window's count that the sliding window still
\* covers: floor((1 - (now % window) / window) * count)
PreviousWindowShare_Whole(count) == count

PreviousWindowShare(count) ==
  ((WINDOW_MS - (nowMs % WINDOW_MS)) * count) \div WINDOW_MS

\* ratelimit.limit(ip) when it answers: the decision and the store and block
\* list it leaves behind
limit(ip) ==
  LET currentWindow == nowMs \div WINDOW_MS
      currentKey == CounterKey(ip, currentWindow)
      previousKey == CounterKey(ip, currentWindow - 1)
      blocked == ip \in DOMAIN cache /\ ~(cache[ip] < nowMs)
      unblocked == [k \in DOMAIN cache \ {ip} |-> cache[k]]
      requestsInCurrentWindow == Counter(currentKey)
      requestsInPreviousWindow == PreviousWindowShare(Counter(previousKey))
      newValue == requestsInCurrentWindow + 1
      reset == (currentWindow + 1) * WINDOW_MS
  IN
  IF blocked
    THEN [success |-> FALSE, limit |-> RATE_LIMIT, remaining |-> 0,
          reset |-> cache[ip], kv |-> kv, cache |-> cache]
  ELSE IF OverLimit(requestsInPreviousWindow + requestsInCurrentWindow)
    THEN [success |-> FALSE, limit |-> RATE_LIMIT, remaining |-> 0,
          reset |-> reset, kv |-> kv, cache |-> Put(unblocked, ip, reset)]
  ELSE [success |-> (RATE_LIMIT - (newValue + requestsInPreviousWindow)) >= 0,
        limit |-> RATE_LIMIT,
        remaining |-> RATE_LIMIT - (newValue + requestsInPreviousWindow),
        reset |-> reset,
        kv |-> Put(kv, currentKey,
                   [n |-> newValue,
                    pexpire |-> IF newValue = 1 THEN nowMs + WINDOW_MS * 2 + 1000
                                                ELSE kv[currentKey].pexpire]),
        cache |-> unblocked]

RateLimitHeaders(res) ==
  [limit |-> res.limit, remaining |-> res.remaining, reset |-> res.reset]

TooManyRequests(res) ==
  [success |-> FALSE, status |-> 429, code |-> "RATE_LIMIT_EXCEEDED", data |-> null,
   headers |-> RateLimitHeaders(res)]

\* the catch of the middleware: the request goes on to the route (fail open)
FailOpen_Closed(r, seen) ==
  [r EXCEPT !.pc = "done", !.mw = seen, !.resp = Failure(500, "INTERNAL_ERROR")]

FailOpen(r, seen) == [r EXCEPT !.pc = "routed", !.mw = [seen EXCEPT !.passed = TRUE]]

\* whether the middleware answers the request itself
Rejects_Never(success) == FALSE

Rejects(success) == ~success

Count(h, ip) == [h EXCEPT ![ip] = @ + 1]

\* middleware on a request to /api/shorten
Middleware(p, method, headers, throws) ==
  /\ req[p].pc = "new"
  /\ hist.sent < MaxRequests
  /\ throws => hist.faults < MaxLimiterFaults
  /\ LET ip == ClientIp(headers)
         res == limit(ip)
         r == [req[p] EXCEPT !.method = method, !.ip = ip]
         seen == [passed |-> FALSE, threw |-> throws,
                  before |-> [passed |-> hist.passed[ip], granted |-> hist.granted[ip],
                              rejectedAt |-> hist.rejectedAt[ip]],
                  at |-> now, headers |-> null, from |-> headers] IN
     IF throws
       THEN /\ req' = [req EXCEPT ![p] = FailOpen(r, seen)]
            /\ hist' = [hist EXCEPT !.sent = @ + 1, !.faults = @ + 1,
                                    !.passed = IF FailOpen(r, seen).pc = "routed"
                                                 THEN Count(@, ip) ELSE @,
                                    !.rejectedAt[ip] = -1]
            /\ UNCHANGED <<kv, cache>>
     ELSE IF Rejects(res.success)
       THEN /\ req' = [req EXCEPT ![p] =
                         [r EXCEPT !.pc = "done", !.mw = seen,
                                   !.resp = TooManyRequests(res)]]
            /\ hist' = [hist EXCEPT !.sent = @ + 1, !.rejectedAt[ip] = now]
            /\ kv' = res.kv
            /\ cache' = res.cache
     ELSE /\ req' = [req EXCEPT ![p] =
                       [r EXCEPT !.pc = "routed",
                                 !.mw = [seen EXCEPT !.passed = TRUE,
                                                     !.headers = RateLimitHeaders(res)]]]
          /\ hist' = [hist EXCEPT !.sent = @ + 1, !.passed = Count(@, ip),
                                  !.granted = Count(@, ip), !.rejectedAt[ip] = -1]
          /\ kv' = res.kv
          /\ cache' = res.cache
  /\ UNCHANGED <<env, variant, file, now, rd, lastSave>>

\* request.nextUrl.pathname.startsWith('/api/'), on the segments of the path:
\* the middleware runs for every page and route, and limits these paths only
LimitedPath_All(pathname) == TRUE

LimitedPath(pathname) == Len(pathname) >= 2 /\ pathname[1] = "api"

\* a request for /<code>, which carries no address header: the middleware,
\* then RedirectPage up to the first backend call, the format check
RedirectBegin(r, code) ==
  /\ rd[r].pc = "idle"
  /\ LET valid == isValidCodeFormat(code)
         s == [rd[r] EXCEPT !.code = code, !.valid = valid, !.after = IssuedBy(code)]
         limited == LimitedPath(<<code>>)
         res == limit(ClientIp([xff |-> Absent, xri |-> Absent])) IN
     /\ IF limited
          THEN kv' = res.kv /\ cache' = res.cache
          ELSE UNCHANGED <<kv, cache>>
     /\ IF limited /\ Rejects(res.success)
          THEN rd' = [rd EXCEPT ![r] =
                        [s EXCEPT !.pc = "done",
                                  !.out = [kind |-> "refused", status |-> 429,
                                           location |-> null]]]
        ELSE IF RejectsCode(code)
          THEN rd' = [rd EXCEPT ![r] = [s EXCEPT !.pc = "done", !.out = NotFound]]
        ELSE rd' = [rd EXCEPT ![r] = [s EXCEPT !.pc = "get"]]
  /\ UNCHANGED <<env, variant, file, now, req, lastSave, hist>>

\* the next request on a connection whose request was answered
Arrive(p) ==
  /\ req[p].pc = "done"
  /\ hist.sent < MaxRequests
  /\ req' = [req EXCEPT ![p] = NewRequest]
  /\ UNCHANGED <<env, variant, kv, file, now, rd, lastSave, cache, hist>>

\* time passes: counters whose PEXPIRE ran out leave the store, and the
\* history starts a new window when the clock enters one
Tick ==
  /\ now < MaxNow
  /\ now' = now + 1
  /\ LET t == (now + 1) * TickMs
         expired == {k \in DOMAIN kv : k[1] = RatelimitPrefix /\ kv[k].pexpire <= t} IN
     kv' = [k \in DOMAIN kv \ expired |-> kv[k]]
  /\ hist' = IF ((now + 1) * TickMs) \div WINDOW_MS # nowMs \div WINDOW_MS
               THEN [hist EXCEPT !.passed = NoHistory.passed,
                                 !.granted = NoHistory.granted]
               ELSE hist
  /\ UNCHANGED <<env, variant, file, req, rd, lastSave, cache>>

-----------------------------------------------------------------------------
(* Inputs *)

\* process.env without the optional settings, and with RATE_LIMIT_MAX set
DefaultEnv == [RATE_LIMIT_MAX |-> Absent]

Environments ==
  {DefaultEnv, [RATE_LIMIT_MAX |-> "19"], [RATE_LIMIT_MAX |-> "21"]}

https == <<"h","t","t","p","s">>

ExCom == << <<"e","x">>, <<"c","o","m">> >>

\* "https://ex.com/a"
UrlA == [ws |-> 0, scheme |-> https, host |-> ExCom, path |-> "/a", fill |-> 0]

\* " HTTP://EX.com/b "
UrlB ==
  [ws |-> 2, scheme |-> <<"H","T","T","P">>,
   host |-> << <<"E","X">>, <<"c","o","m">> >>, path |-> "/b", fill |-> 0]

\* "http://127.0.0.1/x"
UrlLoopback ==
  [ws |-> 0, scheme |-> <<"h","t","t","p">>,
   host |-> << <<"1","2","7">>, <<"0">>, <<"0">>, <<"1">> >>, path |-> "/x", fill |-> 0]

Bodies ==
  { [kind |-> "badjson"], [kind |-> "null"], [kind |-> "nourl"],
    [kind |-> "url", url |-> UrlA], [kind |-> "url", url |-> UrlB],
    [kind |-> "url", url |-> UrlLoopback] }

\* codes asked of the redirect page: the generator's, a free well-formed one,
\* one too short, one too long, one with an alien character
GeneratedCodes == {nanoid(CODE_LENGTH, bytes) : bytes \in RandomFills}

RedirectCodes ==
  GeneratedCodes \cup
  { <<"A","b","C","d","1","2">>, <<"A","b","C","d","1">>,
    <<"A","b","C","d","1","2","3">>, <<"A","b","C","d","1","!">> }

-----------------------------------------------------------------------------
(* Specifications *)

Init ==
  /\ env = DefaultEnv
  /\ variant \in {"kv", "local"}
  /\ kv = EmptyMap
  /\ file = [exists |-> FALSE, data |-> EmptyMap]
  /\ now = 0
  /\ req = [p \in Creators |-> RoutedRequest]
  /\ rd = [r \in Redirects |-> IdleRedirect]
  /\ lastSave = EmptyMap
  /\ cache = EmptyMap
  /\ hist = NoHistory

\* no request is between its first step and its response
Quiet ==
  /\ \A p \in Creators : req[p].pc \in {"unused", "new", "routed", "done"}
  /\ \A r \in Redirects : rd[r].pc \in {"idle", "done"}

\* requests are interchangeable, so the waiting ones are numbered in the order
\* in which they start
NextCreator(p) ==
  /\ req[p].pc = "routed"
  /\ \A q \in 1..(p - 1) : req[q].pc # "routed"

NextRedirect(r) ==
  /\ rd[r].pc = "idle"
  /\ \A q \in 1..(r - 1) : rd[q].pc # "idle"

\* a running creation request goes on to its next await
StepCreate ==
  \/ \E p \in Creators, bytes \in RandomFills, throws \in BOOLEAN :
       GenerateStep(p, bytes, throws)
  \/ \E p \in Creators, throws \in BOOLEAN : SaveKV(p, throws)
  \/ \E p \in Creators : SaveLocalRead(p)
  \/ \E p \in Creators, throws \in BOOLEAN : SaveLocalWrite(p, throws)

Step ==
  \/ StepCreate
  \/ \E r \in Redirects, throws \in BOOLEAN : RedirectGet(r, throws)

\* creation requests that passed the middleware, and redirect requests, start
\* at any time and interleave at their awaits
Next ==
  \/ \E p \in Creators, b \in Bodies : NextCreator(p) /\ PostBegin(p, b)
  \/ \E r \in Redirects :
       NextRedirect(r) /\ \E code \in RedirectCodes : RedirectBegin(r, code)
  \/ Step

Spec == Init /\ [][Next]_vars

\* requests run one at a time: one starts only when no other is running
NextSeq ==
  \/ \E p \in Creators :
       Quiet /\ NextCreator(p) /\ \E b \in Bodies : PostBegin(p, b)
  \/ \E r \in Redirects :
       Quiet /\ NextRedirect(r) /\ \E code \in RedirectCodes : RedirectBegin(r, code)
  \/ Step

SpecSeq == Init /\ [][NextSeq]_vars

\* creation requests alone (a redirect request writes nothing they read):
\* interleaved at their awaits, and one at a time
NextCreate ==
  \/ \E p \in Creators, b \in Bodies : NextCreator(p) /\ PostBegin(p, b)
  \/ StepCreate

SpecCreate == Init /\ [][NextCreate]_vars

\* the same with a responsive backend: every await of a running request
\* settles, by returning or by throwing
SpecCreateLive == Init /\ [][NextCreate]_vars /\ WF_vars(StepCreate)

NextSeqCreate ==
  \/ \E p \in Creators :
       Quiet /\ NextCreator(p) /\ \E b \in Bodies : PostBegin(p, b)
  \/ StepCreate

SpecSeqCreate == Init /\ [][NextSeqCreate]_vars

SpecSeqCreateLive == Init /\ [][NextSeqCreate]_vars /\ WF_vars(StepCreate)

\* isValidCodeFormat on many strings: every string of at most MaxStrLen sample
\* characters, and each character of CharUniverse repeated CODE_LENGTH times
SampleChars == {"k", "7", "Q", "_"}

CharUniverse ==
  {urlAlphabet[i] : i \in 1..Len(urlAlphabet)} \cup {"!", " ", ".", "/", "@", "[", "{", "~"}

FormatInputs ==
  UNION {[1..n -> SampleChars] : n \in 0..MaxStrLen}
    \cup {[k \in 1..CODE_LENGTH |-> ch] : ch \in CharUniverse}

NextFormat ==
  \/ rd[1].pc = "idle" /\ \E code \in FormatInputs : RedirectBegin(1, code)
  \/ \E throws \in BOOLEAN : RedirectGet(1, throws)

SpecFormat == Init /\ [][NextFormat]_vars

\* redirect requests alone, on a store that earlier creation requests filled:
\* any of the generator's codes may hold the record of "https://ex.com/a"
StoredMaps ==
  UNION { [codes -> {[url |-> Serialize(UrlA), createdAt |-> 0]}] :
            codes \in SUBSET GeneratedCodes }

InitStored ==
  /\ env = DefaultEnv
  /\ variant \in {"kv", "local"}
  /\ \E stored \in StoredMaps :
       /\ kv = IF variant = "kv"
                 THEN [k \in {getKey(c) : c \in DOMAIN stored} |-> stored[k[2]]]
                 ELSE EmptyMap
       /\ file = IF variant = "local" /\ stored # EmptyMap
                   THEN writeData(stored)
                   ELSE [exists |-> FALSE, data |-> EmptyMap]
       /\ lastSave = [c \in DOMAIN stored |-> stored[c].url]
  /\ now = 0
  /\ req = [p \in Creators |-> [NewRequest EXCEPT !.pc = "unused"]]
  /\ rd = [r \in Redirects |-> IdleRedirect]
  /\ cache = EmptyMap
  /\ hist = NoHistory

NextRedirects ==
  \/ \E r \in Redirects :
       NextRedirect(r) /\ \E code \in RedirectCodes : RedirectBegin(r, code)
  \/ \E r \in Redirects, throws \in BOOLEAN : RedirectGet(r, throws)

SpecRedirect == InitStored /\ [][NextRedirects]_vars

\* validateUrl on many texts: with and without surrounding whitespace, every
\* scheme and host of the samples, with and without a path, as short as they
\* are and padded with query characters to the lengths around both limits
SampleSchemes ==
  { <<>>, <<"h","t","t","p">>, https, <<"H","T","T","P">>, <<"f","t","p">> }

SampleHosts ==
  { <<>>, ExCom, << <<"E","X">>, <<"c","o","m">> >>,
    << <<"x">>, <<"y">> >>,
    << <<"l","o","c","a","l","h","o","s","t">> >>,
    << <<"L","o","c","a","l","H","o","s","t">> >>,
    << <<"f","o","o">>, <<"l","o","c","a","l","h","o","s","t">> >>,
    << <<"1","2","7">>, <<"0">>, <<"0">>, <<"1">> >>,
    << <<"0">>, <<"0">>, <<"0">>, <<"0">> >>,
    << <<"a">>, <<"0">>, <<"0">>, <<"0">>, <<"0">> >> }

\* "not a url": no "://", and what stands where a host would is no host name
NotAUrl ==
  [ws |-> 0, scheme |-> <<>>,
   host |-> << <<"n","o","t"," ","a"," ","u","r","l">> >>, path |-> "", fill |-> 0]

SampleTexts ==
  [ws : {0, 2}, scheme : SampleSchemes, host : SampleHosts, path : {"", "/x"},
   fill : {0}] \cup {NotAUrl}

SampleLengths == {MIN_LENGTH - 1, MIN_LENGTH, MAX_LENGTH, MAX_LENGTH + 1}

ValidateInputs ==
  SampleTexts \cup
  { [u EXCEPT !.fill = n - StrLen(trim(u))] :
      u \in {v \in SampleTexts : StrLen(trim(v)) > 0},
      n \in SampleLengths }

ValidateBodies ==
  { [kind |-> "badjson"], [kind |-> "nourl"] } \cup
  { [kind |-> "url", url |-> u] : u \in {v \in ValidateInputs : v.fill >= 0} }

\* one request with any of these bodies, and after it one that sends the
\* normalized URL the first one got
NextValidate ==
  \/ \E b \in ValidateBodies : PostBegin(1, b)
  \/ /\ req[1].pc = "generate"
     /\ PostBegin(2, [kind |-> "url", url |-> req[1].nurl])

SpecValidate == Init /\ [][NextValidate]_vars

\* the middleware in front of the route: requests arrive one after the other,
\* with or without the address headers, and are of the kinds the route
\* answers in its first step
Methods == {"POST", "GET"}

Headers ==
  { [xff |-> "203.0.113.7", xri |-> Absent], [xff |-> Absent, xri |-> "203.0.113.7"],
    [xff |-> "203.0.113.7", xri |-> "198.51.100.9"], [xff |-> Absent, xri |-> Absent] }

LimiterBodies == { [kind |-> "nourl"], [kind |-> "url", url |-> UrlLoopback] }

\* The store outlives the server: when the model starts, earlier requests of
\* one client, all granted in the window that has just begun, are counted in it.
PriorGranted == RATE_LIMIT - 2

PriorClient == "203.0.113.7"

InitLimiter ==
  /\ env \in Environments
  /\ variant = "kv"
  /\ kv = Put(EmptyMap, CounterKey(PriorClient, 0),
              [n |-> PriorGranted, pexpire |-> WINDOW_MS * 2 + 1000])
  /\ file = [exists |-> FALSE, data |-> EmptyMap]
  /\ now = 0
  /\ req = [p \in Creators |-> IF p = 1 THEN NewRequest
                                        ELSE [NewRequest EXCEPT !.pc = "unused"]]
  /\ rd = [r \in Redirects |-> IdleRedirect]
  /\ lastSave = EmptyMap
  /\ cache = EmptyMap
  /\ hist = [NoHistory EXCEPT !.passed[PriorClient] = PriorGranted,
                              !.granted[PriorClient] = PriorGranted]

NextLimiter ==
  \/ \E method \in Methods, headers \in Headers, throws \in BOOLEAN :
       Middleware(1, method, headers, throws)
  \/ \E b \in LimiterBodies : PostBegin(1, b)
  \/ MethodNotAllowed(1)
  \/ Arrive(1)
  \/ Quiet /\ Tick

SpecLimiter == InitLimiter /\ [][NextLimiter]_vars

\* the whole path of a creation request: the middleware, then POST and its
\* awaits, for requests of one client that is one request short of its cap
PipelineHeaders == { [xff |-> PriorClient, xri |-> Absent] }

PipelineBodies ==
  { [kind |-> "nourl"], [kind |-> "url", url |-> UrlA],
    [kind |-> "url", url |-> UrlLoopback] }

InitPipeline ==
  /\ env = DefaultEnv
  /\ variant \in {"kv", "local"}
  /\ kv = Put(EmptyMap, CounterKey(PriorClient, 0),
              [n |-> RATE_LIMIT - 1, pexpire |-> WINDOW_MS * 2 + 1000])
  /\ file = [exists |-> FALSE, data |-> EmptyMap]
  /\ now = 0
  /\ req = [p \in Creators |-> NewRequest]
  /\ rd = [r \in Redirects |-> IdleRedirect]
  /\ lastSave = EmptyMap
  /\ cache = EmptyMap
  /\ hist = [NoHistory EXCEPT !.passed[PriorClient] = RATE_LIMIT - 1,
                              !.granted[PriorClient] = RATE_LIMIT - 1]

NextArrival(p) ==
  /\ req[p].pc = "new"
  /\ \A q \in 1..(p - 1) : req[q].pc # "new"

NextPipeline ==
  \/ \E p \in Creators, headers \in PipelineHeaders, throws \in BOOLEAN :
       NextArrival(p) /\ Middleware(p, "POST", headers, throws)
  \/ \E p \in Creators, b \in PipelineBodies : PostBegin(p, b)
  \/ StepCreate

SpecPipeline == InitPipeline /\ [][NextPipeline]_vars

-----------------------------------------------------------------------------
(* Properties *)

Alnum62 ==
  {"0","1","2","3","4","5","6","7","8","9"} \cup
  {"A","B","C","D","E","F","G","H","I","J","K","L","M",
   "N","O","P","Q","R","S","T","U","V","W","X","Y","Z"} \cup
  {"a","b","c","d","e","f","g","h","i","j","k","l","m",
   "n","o","p","q","r","s","t","u","v","w","x","y","z"}

Succeeded(p) == req[p].pc = "done" /\ req[p].resp.success

\* generateUniqueCode returned a code to POST
Allocated(p) == req[p].pc \in {"save", "write"} \/ Succeeded(p)

\* generateUniqueCode ended by throwing (POST answered from its first catch)
GenerationFailed(p) ==
  req[p].pc = "done" /\ req[p].resp.code = "CODE_GENERATION_FAILED"

\* C1: under the KV variant, whatever the interleaving of creation requests, a
\* record stored under a code is never replaced by a different record nor
\* removed (so two successful requests never save under one code).
C1_RecordsAreFinal ==
  [][variant = "kv" =>
       \A k \in DOMAIN kv : k \in DOMAIN kv' /\ kv'[k] = kv[k]]_vars

\* C2: when requests run one at a time, the code generateUniqueCode returns is
\* the candidate whose exists check answered false in that call, no record is
\* stored under it when save is called, and two successful requests (also for
\* the same URL) get different codes.
C2_SequentialCodesAreFresh ==
  /\ \A p \in Creators :
       Allocated(p) => req[p].checked = [code |-> req[p].code, exists |-> FALSE]
  /\ \A p \in Creators : req[p].pc = "save" => ~urlExists(req[p].code)
  /\ \A p, q \in Creators :
       (p # q /\ Succeeded(p) /\ Succeeded(q))
         => req[p].resp.data.code # req[q].resp.data.code

C2_Witness ==
  \E p, q \in Creators :
    /\ p # q /\ Succeeded(p) /\ Succeeded(q)
    /\ req[p].body = req[q].body
    /\ req[q].attempts > 0

\* C3: with no other request running, a redirect request for the code of a
\* creation request that answered success (and whose storage read does not
\* throw) ends in a redirect to the normalized URL of that request.
C3_CreatedCodeRedirects ==
  \A r \in Redirects :
    (rd[r].pc = "done" /\ ~rd[r].threw) =>
      \A p \in rd[r].after :
        /\ rd[r].out.kind = "redirect"
        /\ rd[r].out.location = validateUrl(req[p].body.url).normalizedUrl

\* C4: every code generateUniqueCode returns has exactly 6 characters, each
\* one of the 62 symbols 0-9 A-Z a-z, and isValidCodeFormat accepts it.
C4_GeneratedCodesWellFormed ==
  \A p \in Creators :
    Allocated(p) =>
      /\ Len(req[p].code) = 6
      /\ \A i \in 1..Len(req[p].code) : req[p].code[i] \in Alnum62
      /\ isValidCodeFormat(req[p].code)

C6_Loop(p) ==
  /\ req[p].nExists <= 5
  /\ req[p].attempts <= 5
  /\ Allocated(p) =>
       /\ req[p].checked = [code |-> req[p].code, exists |-> FALSE]
       /\ req[p].attempts = req[p].nExists - 1
       /\ req[p].attempts < 5

\* C6 as claimed: ... and it fails if and only if all 5 candidates collide.
C6_FailsIffAllCollide ==
  \A p \in Creators :
    /\ C6_Loop(p)
    /\ GenerationFailed(p) <=> (req[p].attempts = 5 /\ req[p].nExists = 5)

\* C6 as amended: ... it throws its own error if and only if all 5 candidates
\* collide, and fails otherwise only when an exists check throws, whose
\* exception it passes on.
C6_FailsIffAllCollideOrExistsThrows ==
  \A p \in Creators :
    /\ C6_Loop(p)
    /\ GenerationFailed(p) <=>
         \/ (req[p].attempts = 5 /\ req[p].nExists = 5 /\ req[p].threw = "")
         \/ (req[p].threw = "exists" /\ req[p].attempts < 5)
    /\ req[p].threw = "exists" => GenerationFailed(p)

C6_Witness ==
  \E p \in Creators :
    /\ Succeeded(p)
    /\ req[p].attempts = 4
    /\ req[p].nExists = 5

\* C7: when all 5 candidates collide the request answers 500
\* CODE_GENERATION_FAILED and never calls save, and CODE_GENERATION_FAILED is
\* answered in that case only.
C7_GenerationFailedMeansExhausted ==
  \A p \in Creators :
    req[p].pc = "done" =>
      /\ req[p].attempts = 5 =>
           /\ req[p].resp = Failure(500, "CODE_GENERATION_FAILED")
           /\ req[p].nSave = 0
      /\ req[p].resp.code = "CODE_GENERATION_FAILED" => req[p].attempts = 5

\* C8: a request in which a storage call threw (an exists check or the save)
\* answers status 500 with STORAGE_ERROR or INTERNAL_ERROR.
C8_BackendErrorsMapped ==
  \A p \in Creators :
    (req[p].pc = "done" /\ req[p].threw # "") =>
      /\ req[p].resp.status = 500
      /\ req[p].resp.code \in {"STORAGE_ERROR", "INTERNAL_ERROR"}

\* C9: for both adapters get(code) returns the url of the latest completed
\* save(code, _), and a code never saved has get absent and exists false.
C9_RoundTrip ==
  \A code \in GeneratedCodes \cup RedirectCodes :
    IF code \in DOMAIN lastSave
      THEN getUrl(storageGet(code)) = lastSave[code] /\ urlExists(code)
      ELSE storageGet(code) = null /\ ~urlExists(code)

Rejected(p) ==
  /\ req[p].pc = "done"
  /\ req[p].resp.status = 429
  /\ req[p].resp.code = "RATE_LIMIT_EXCEEDED"
  /\ req[p].resp.headers.limit = 20
  /\ req[p].resp.headers.remaining = 0
  /\ req[p].resp.headers.reset > 0
  /\ req[p].nHandler = 0

AfterRejection(p, gap) ==
  /\ req[p].mw # null
  /\ ~req[p].mw.threw
  /\ req[p].mw.before.rejectedAt >= 0
  /\ req[p].mw.at - req[p].mw.before.rejectedAt = gap

C12_LimiterFailureAdmits ==
  \A p \in Creators :
    (req[p].mw # null /\ req[p].mw.threw) =>
      /\ req[p].mw.passed
      /\ req[p].mw.headers = null
      /\ req[p].pc \in {"routed", "done"}
      /\ req[p].pc = "done" =>
           /\ req[p].nHandler = 1
           /\ req[p].resp.status # 429

C12_Witness ==
  \E p \in Creators :
    /\ req[p].mw # null
    /\ req[p].mw.threw
    /\ req[p].mw.before.granted = RATE_LIMIT
    /\ req[p].pc = "done"
    /\ req[p].nHandler = 1

\* the cap the deployment asks for: RATE_LIMIT_MAX, 20 when it is not set
ConfiguredCap ==
  CASE env.RATE_LIMIT_MAX = Absent -> 20
    [] env.RATE_LIMIT_MAX = "19" -> 19
    [] env.RATE_LIMIT_MAX = "21" -> 21

\* C13: the limiter admits at most RATE_LIMIT_MAX (20 when not set) requests
\* of a client per window, and in the first window it admits every request of
\* a client of which fewer than that many were admitted.
C13_CapIsConfigured ==
  /\ \A ip \in ClientKeys : hist.granted[ip] <= ConfiguredCap
  /\ \A p \in Creators :
       (/\ req[p].mw # null
        /\ ~req[p].mw.threw
        /\ req[p].mw.at < TicksPerWindow
        /\ req[p].mw.before.granted < ConfiguredCap)
         => req[p].mw.passed

\* C14: a redirect request for a well-formed code under which storage.get
\* found a record answers a permanent redirect, status 301, to the url of
\* that record.
C14_PermanentRedirectToStoredUrl ==
  \A r \in Redirects :
    (rd[r].pc = "done" /\ rd[r].valid /\ rd[r].found # null) =>
      /\ rd[r].out.kind = "redirect"
      /\ rd[r].out.location = rd[r].found.url
      /\ rd[r].out.status = 301

\* C15: a redirect request answers not-found when the code is malformed,
\* when storage.get finds no record and when storage.get throws; it answers
\* nothing but not-found or a redirect.
C15_NotFoundOnEveryFailure ==
  \A r \in Redirects :
    rd[r].pc = "done" =>
      /\ (~rd[r].valid \/ rd[r].threw \/ rd[r].found = null) => rd[r].out = NotFound
      /\ rd[r].out.kind \in {"notFound", "redirect"}

C15_Witness ==
  \E r \in Redirects :
    /\ rd[r].pc = "done"
    /\ rd[r].valid
    /\ rd[r].threw
    /\ storageGet(rd[r].code) # null
    /\ rd[r].out = NotFound

\* C16: a redirect request whose code fails the format check is answered
\* not-found at once and makes no storage call.
C16_MalformedCodeSkipsStorage ==
  \A r \in Redirects :
    (rd[r].pc # "idle" /\ ~rd[r].valid) =>
      /\ rd[r].pc = "done"
      /\ rd[r].nGet = 0
      /\ rd[r].out = NotFound

C16_Witness ==
  \E r \in Redirects :
    /\ rd[r].pc = "done"
    /\ ~rd[r].valid
    /\ rd[r].nGet = 0
    /\ storageGet(rd[r].code) # null

\* a creation request on whose url validateUrl has run
Validated(p) == req[p].pc \in {"generate", "save", "write", "done"} /\ req[p].validation # null

\* the rules of validateUrl in the order claimed, each by itself, on the
\* trimmed text, and the error each stands for
RuleFails(u) ==
  LET t == [u EXCEPT !.ws = 0] IN
  << StrLen(t) = 0,
     StrLen(t) < 10,
     StrLen(t) > 2048,
     ~isURL(t),
     toLowerCase(t.scheme) \notin ALLOWED_PROTOCOLS,
     \E domain \in BLOCKED_DOMAINS : EndsWithDomain(LowerHost(t.host), domain) >>

RuleError ==
  << "EMPTY_URL", "TOO_SHORT", "TOO_LONG", "INVALID_FORMAT", "INVALID_PROTOCOL",
     "BLOCKED_DOMAIN" >>

FailingRules(u) == {i \in 1..6 : RuleFails(u)[i]}

C18_BlockedHostsRejected ==
  \A p \in Creators :
    Validated(p) =>
      LET t == [req[p].body.url EXCEPT !.ws = 0] IN
      (/\ StrLen(t) >= 10
       /\ StrLen(t) <= 2048
       /\ toLowerCase(t.scheme) \in ALLOWED_PROTOCOLS
       /\ \E domain \in BLOCKED_DOMAINS : EndsWithDomain(LowerHost(t.host), domain))
        => /\ req[p].validation.error = "BLOCKED_DOMAIN"
           /\ req[p].pc = "done"
           /\ req[p].resp = Failure(400, "BLOCKED_DOMAIN")

\* C19: when validateUrl accepted a text with normalized URL U, validateUrl
\* on U succeeds and gives U back.
C19_NormalizedUrlIsFixedPoint ==
  \A p, q \in Creators :
    (/\ Validated(p)
     /\ Validated(q)
     /\ req[p].validation.isValid
     /\ req[q].body.url = req[p].validation.normalizedUrl)
      => /\ req[q].validation.isValid
         /\ req[q].validation.normalizedUrl = req[q].body.url

Taxonomy ==
  { "EMPTY_URL", "TOO_SHORT", "TOO_LONG", "INVALID_FORMAT", "INVALID_PROTOCOL",
    "BLOCKED_DOMAIN", "CODE_GENERATION_FAILED", "STORAGE_ERROR",
    "RATE_LIMIT_EXCEEDED", "INTERNAL_ERROR" }

\* C20: every failure response of POST carries an error code of the taxonomy,
\* and a failure of validateUrl is reported under the validator's own name.
C20_FailureCodesInTaxonomy ==
  \A p \in Creators :
    (req[p].pc = "done" /\ ~req[p].resp.success) =>
      /\ req[p].resp.code \in Taxonomy
      /\ req[p].validation # null => req[p].resp.code = req[p].validation.error

\* the trimmed text is an absolute http or https URL: a scheme http or https,
\* in any case, before "://" and a host after it
AbsoluteHttpUrl(t) ==
  /\ toLowerCase(t.scheme) \in ALLOWED_PROTOCOLS
  /\ t.host # <<>>

\* C21: a creation request whose url is a non-empty text that is no absolute
\* http or https URL (such as "not a url") is answered 400 with the error code
\* INVALID_FORMAT.
C21_UnparsableUrlInvalidFormat ==
  \A p \in Creators :
    Validated(p) =>
      LET t == trim(req[p].body.url) IN
      (StrLen(t) > 0 /\ ~AbsoluteHttpUrl(t))
        => /\ req[p].pc = "done"
           /\ req[p].resp = Failure(400, "INVALID_FORMAT")

\* the two answers such texts get: "not a url" itself, and a longer one
C21_NotAUrlTooShort ==
  \E p \in Creators :
    /\ Validated(p)
    /\ req[p].body.url = NotAUrl
    /\ req[p].resp = Failure(400, "URL_TOO_SHORT")

C21_LongerTextInvalidUrlFormat ==
  \E p \in Creators :
    /\ Validated(p)
    /\ trim(req[p].body.url) = [NotAUrl EXCEPT !.fill = 1]
    /\ req[p].validation.error = "INVALID_FORMAT"
    /\ req[p].resp = Failure(400, "INVALID_URL_FORMAT")

\* C22: a request to the creation endpoint with a method other than POST is
\* answered with status 405, and no validation, exists check or save is made
\* for it.
C22_OtherMethodsAnswered405 ==
  \A p \in Creators :
    (req[p].mw # null /\ req[p].method # "POST") =>
      /\ req[p].pc = "done" => req[p].resp.status = 405
      /\ req[p].validation = null
      /\ req[p].nExists = 0
      /\ req[p].nSave = 0

\* a GET of a client at its cap: refused by the middleware, no handler runs
C22_GetRefused ==
  \E p \in Creators :
    /\ req[p].method = "GET"
    /\ Rejected(p)
    /\ req[p].mw.before.granted = RATE_LIMIT

\* a GET that was passed on and answered 405 took one unit of the quota
C22_GetCounted ==
  \E p \in Creators :
    /\ req[p].method = "GET"
    /\ req[p].pc = "done"
    /\ req[p].resp = Failure(405, "METHOD_NOT_ALLOWED")
    /\ req[p].ip = PriorClient
    /\ req[p].mw.at = 0
    /\ Counter(CounterKey(PriorClient, 0)) = req[p].mw.before.granted + 1

\* a response of the shape {success: true, data: {shortUrl, code}} or
\* {success: false, error: {code, message}}
Structured(resp) ==
  IF resp.success
    THEN /\ resp.status = 200
         /\ DOMAIN resp.data = {"shortUrl", "code"}
         /\ resp.data.shortUrl = <<BaseUrl, "/", resp.data.code>>
    ELSE /\ resp.data = null
         /\ resp.code # ""
         /\ resp.status \in {400, 500}

Running(p) == req[p].pc \in {"generate", "save", "write"}

\* C23: a creation request that entered POST ends, with a responsive backend,
\* in one structured response that is never replaced; whatever a storage call
\* throws is answered as a failure; and the request makes at most 5 exists
\* checks and at most 1 save.
C23_OneStructuredResponse ==
  /\ [](\A p \in Creators :
          /\ req[p].nHandler <= 1
          /\ req[p].nExists <= 5
          /\ req[p].nSave <= 1
          /\ req[p].pc = "done" => Structured(req[p].resp)
          /\ (req[p].pc = "done" /\ req[p].threw # "") => ~req[p].resp.success)
  /\ [][\A p \in Creators : req[p].pc = "done" => req'[p] = req[p]]_vars
  /\ \A p \in Creators : Running(p) ~> req[p].pc = "done"

C23_Witness ==
  \E p \in Creators :
    /\ req[p].pc = "done"
    /\ req[p].nExists = 5
    /\ req[p].nSave = 1
    /\ req[p].threw = "save"
    /\ req[p].resp = SaveCatch
    /\ Structured(req[p].resp)

\* What C24 says of one request in one state: each step was preceded by the
\* success of the steps before it
InOrder(p) ==
  /\ req[p].nHandler > 0 => (req[p].mw # null /\ req[p].mw.passed)
  /\ req[p].validation # null => req[p].nHandler = 1
  /\ req[p].nExists > 0 =>
       /\ req[p].validation # null
       /\ req[p].validation.isValid
       /\ req[p].validation.error = ""
  /\ req[p].nSave > 0 =>
       /\ req[p].nExists > 0
       /\ req[p].checked = [code |-> req[p].code, exists |-> FALSE]
  /\ (req[p].mw # null /\ ~req[p].mw.passed) =>
       /\ Rejected(p)
       /\ req[p].validation = null
       /\ req[p].nExists = 0
       /\ req[p].nSave = 0
  /\ (req[p].validation # null /\ req[p].validation.error # "") =>
       /\ req[p].pc = "done"
       /\ req[p].resp.status = 400
       /\ req[p].nExists = 0
       /\ req[p].nSave = 0
  /\ req[p].nSave <= 1
  /\ req[p].threw = "save" => (req[p].pc = "done" /\ req[p].nSave = 1)

\* C24: a creation request is admitted by the middleware before validateUrl
\* runs on it, validated before its first exists check, and has allocated a
\* code before its save; a request the limiter refused or for whose url the
\* validator reported an error makes no exists check and no save; and a request
\* calls save at most once, also when the save fails.
C24_StepsInOrder ==
  [][\A p \in Creators :
       /\ InOrder(p)'
       /\ req'[p].mw # req[p].mw =>
            (req[p].validation = null /\ req[p].nExists = 0 /\ req[p].nSave = 0)
       /\ req'[p].validation # req[p].validation =>
            (req[p].nExists = 0 /\ req[p].nSave = 0)
       /\ req'[p].nExists # req[p].nExists => req[p].nSave = 0]_vars

C24_Witness ==
  \E p, q \in Creators :
    /\ Succeeded(p)
    /\ ~req[p].mw.threw
    /\ req[p].nSave = 1
    /\ Rejected(q)
    /\ req[q].validation = null
    /\ req[q].nExists = 0

\* C25: under the local variant no step removes or alters the record of a code
\* other than the one whose save is writing: a record that get returns is
\* returned unchanged after the step.
C25_LocalSavesKeepOtherRecords ==
  [][variant = "local" =>
       \A c \in DOMAIN readData :
         \/ LocalGet(c)' = LocalGet(c)
         \/ \E p \in Creators :
              /\ req[p].pc = "write"
              /\ req'[p].pc = "done"
              /\ req[p].code = c]_vars

\* two overlapping saves of different codes have both answered success, and
\* get finds the record of one of them only
C25_LostRecord ==
  \E p, q \in Creators :
    /\ variant = "local"
    /\ Succeeded(p)
    /\ Succeeded(q)
    /\ req[p].code # req[q].code
    /\ LocalGet(req[p].code) = null
    /\ LocalGet(req[q].code) # null

\* the codes under which the storage in use holds a record
StoredCodes ==
  IF variant = "kv"
    THEN {k[2] : k \in {j \in DOMAIN kv : j[1] = "shorturl:"}}
    ELSE DOMAIN readData

\* C26: the url of every stored record is the normalizedUrl that validateUrl
\* returned, with success, to a request that called save for that code; it
\* is an absolute http or https URL whose host is not block-listed, also
\* when isValidUrlFormat accepts a text that validateUrl refuses.
C26_StoredUrlsWereValidated ==
  \A c \in StoredCodes :
    LET url == storageGet(c).url IN
    /\ url.scheme \in ALLOWED_PROTOCOLS
    /\ url.host # <<>>
    /\ url.ws = 0
    /\ ~\E domain \in BLOCKED_DOMAINS : EndsWithDomain(url.host, domain)
    /\ \E p \in Creators :
         /\ req[p].code = c
         /\ req[p].nSave = 1
         /\ req[p].validation # null
         /\ req[p].validation.isValid
         /\ req[p].validation.normalizedUrl = url

\* a record whose url is not the text its request sent, and a request whose
\* text isValidUrlFormat accepts and that was refused
C26_Witness ==
  \E p, q \in Creators :
    /\ Succeeded(p)
    /\ req[p].code \in StoredCodes
    /\ req[p].body.url = UrlB
    /\ storageGet(req[p].code).url = Serialize(UrlB)
    /\ storageGet(req[p].code).url # UrlB
    /\ req[q].pc = "done"
    /\ req[q].validation # null
    /\ isValidUrlFormat(req[q].body.url)
    /\ req[q].resp = Failure(400, "BLOCKED_DOMAIN")

\* C27: a step of a redirect request changes neither the records in storage
\* nor a counter or the block list of the limiter nor any creation request
\* (no save, no exists check, no limit call), and a redirect request makes at
\* most one get.
C27_RedirectChangesNothing ==
  [][rd' # rd =>
       /\ kv' = kv
       /\ file' = file
       /\ cache' = cache
       /\ lastSave' = lastSave
       /\ hist' = hist
       /\ req' = req
       /\ \A r \in Redirects : rd'[r].nGet <= 1]_vars

C27_Witness ==
  \E r \in Redirects :
    /\ rd[r].pc = "done"
    /\ rd[r].nGet = 1
    /\ rd[r].out.kind = "redirect"
    /\ rd[r].code \in StoredCodes
    /\ \A k \in DOMAIN kv : k[1] # RatelimitPrefix
    /\ cache = EmptyMap

\* C28: the code-to-record mapping changes only in the save of a request that
\* answers success, and only at the code that request allocated; a request
\* that ends in a failure response leaves the mapping as it was.
C28_OnlyOwnCodeChanges ==
  [][\A c \in StoredCodes \cup StoredCodes' :
       storageGet(c)' # storageGet(c) =>
         \E p \in Creators :
           /\ req[p].pc \in {"save", "write"}
           /\ req'[p].pc = "done"
           /\ req'[p].resp.success
           /\ req[p].code = c]_vars

\* the part of C28 about failure responses: no step in which a request
\* answers a failure changes the mapping
C28_FailuresChangeNothing ==
  [][\A p \in Creators :
       (req[p].pc # "done" /\ req'[p].pc = "done" /\ ~req'[p].resp.success)
         => \A c \in StoredCodes \cup StoredCodes' : storageGet(c)' = storageGet(c)]_vars

\* what the limiter would answer a request under this key now
Decision(key) ==
  [success |-> limit(key).success, remaining |-> limit(key).remaining,
   reset |-> limit(key).reset]

\* the step is the middleware's, on request p
Admits(p) == req[p].pc = "new" /\ req'[p].pc # "new"

\* C29: the key of a request is its x-forwarded-for header, else its
\* x-real-ip header, else 127.0.0.1; a request under one key leaves what the
\* limiter would answer under every other key unchanged, and so does every
\* step of a route handler; and each granted request counts on the counter of
\* its own key, the requests without both headers all on that of 127.0.0.1.
C29_KeysAreIndependent ==
  [][/\ \A p \in Creators :
          Admits(p) =>
            /\ req'[p].ip = IF req'[p].mw.from.xff # Absent THEN req'[p].mw.from.xff
                            ELSE IF req'[p].mw.from.xri # Absent THEN req'[p].mw.from.xri
                            ELSE "127.0.0.1"
            /\ \A key \in ClientKeys :
                 IF key = req'[p].ip
                   THEN (req'[p].mw.passed /\ ~req'[p].mw.threw) =>
                          Counter(CounterKey(key, nowMs \div WINDOW_MS))'
                            = Counter(CounterKey(key, nowMs \div WINDOW_MS)) + 1
                   ELSE Decision(key)' = Decision(key)
     /\ (now' = now /\ \A p \in Creators : ~Admits(p)) =>
          \A key \in ClientKeys : Decision(key)' = Decision(key)]_vars

\* one client is at its cap, and the second request without address headers
\* is granted the 19th of the 20 units of the quota those requests share
C29_Witness ==
  \E p \in Creators :
    /\ req[p].mw # null
    /\ req[p].mw.from = [xff |-> Absent, xri |-> Absent]
    /\ req[p].ip = "127.0.0.1"
    /\ req[p].mw.passed
    /\ ~req[p].mw.threw
    /\ req[p].mw.before.granted = 1
    /\ req[p].mw.headers.remaining = RATE_LIMIT - 2
    /\ hist.granted[PriorClient] = RATE_LIMIT
    /\ ~limit(PriorClient).success

\* the text has a scheme before "://" and it is neither http nor https
OtherScheme(t) == t.scheme # <<>> /\ toLowerCase(t.scheme) \notin ALLOWED_PROTOCOLS

\* C30 as claimed: validateUrl answers INVALID_FORMAT for every text whose
\* scheme is not http or https, and INVALID_PROTOCOL for none.
C30_OtherSchemesInvalidFormat ==
  \A p \in Creators :
    Validated(p) =>
      /\ OtherScheme(trim(req[p].body.url)) =>
           req[p].validation.error = "INVALID_FORMAT"
      /\ req[p].validation.error # "INVALID_PROTOCOL"

\* C30 as amended: validateUrl answers INVALID_FORMAT for every text of 10 to
\* 2048 characters whose scheme is not http or https, TOO_SHORT or TOO_LONG
\* for the shorter and the longer ones, and INVALID_PROTOCOL for none.
C30_OtherSchemesNeverInvalidProtocol ==
  \A p \in Creators :
    Validated(p) =>
      LET t == trim(req[p].body.url) IN
      /\ OtherScheme(t) =>
           req[p].validation.error =
             IF StrLen(t) < 10 THEN "TOO_SHORT"
             ELSE IF StrLen(t) > 2048 THEN "TOO_LONG"
             ELSE "INVALID_FORMAT"
      /\ req[p].validation.error # "INVALID_PROTOCOL"

\* "ftp://ex.com/x": nothing but the scheme is wrong with it
C30_Witness ==
  \E p \in Creators :
    /\ Validated(p)
    /\ req[p].body.url =
         [ws |-> 0, scheme |-> <<"f","t","p">>, host |-> ExCom, path |-> "/x", fill |-> 0]
    /\ req[p].validation.error = "INVALID_FORMAT"
    /\ req[p].resp = Failure(400, "INVALID_URL_FORMAT")

====
